---- MODULE Spec2Model ----
(***************************************************************************)
(* A model of app.py of Python-Code-Writer: the Streamlit script whose     *)
(* session state holds json_prompt, generated_output, modules and          *)
(* explanation, the two button handlers that write them, the two calls to  *)
(* the Gemini model, and the regular-expression helpers that post-process  *)
(* the model's reply.                                                      *)
(*                                                                         *)
(* A Python str is a sequence of one-character strings.  The fixed texts   *)
(* of the program (the diagnostics, the prompt templates) are single       *)
(* elements of such a sequence.  Those that reach the helpers (the         *)
(* diagnostics) hold no backquote, quote, '#' or newline, begin with the   *)
(* warning sign and do not end with whitespace, so every regular           *)
(* expression of the program treats them as one character that is neither  *)
(* whitespace nor a word character.  The empty str and the empty list are  *)
(* both <<>>.                                                              *)
(***************************************************************************)
EXTENDS Naturals, Sequences, FiniteSets, TLC

VARIABLES
    user_prompt,        \* the text area's value at the last run
    json_prompt,        \* st.session_state.json_prompt
    generated_output,   \* st.session_state.generated_output
    modules,            \* st.session_state.modules
    explanation,        \* st.session_state.explanation
    last,               \* what the last run of the script did
    shown,              \* the last run rendered the results section and its explain button
    raw_output,         \* the text the last completion call returned
    calls,              \* the provider calls of the last run, in order
    provider_error,     \* how the last run's completion failed, "" when it did not
    explained_code,     \* the code the stored explanation was asked for
    x,                  \* the input a helper is applied to
    y,                  \* the helper's result
    z,                  \* the result of a second application
    op                  \* how far the helper run has got

vars == <<user_prompt, json_prompt, generated_output, modules, explanation, last,
          shown, raw_output, calls, provider_error, explained_code, x, y, z, op>>

session == <<user_prompt, json_prompt, generated_output, modules, explanation, last,
             shown, raw_output, calls, provider_error, explained_code>>

helper == <<x, y, z, op>>

(***************************************************************************)
(* Characters                                                              *)
(***************************************************************************)

\* The characters Python's \s and str.strip() take for whitespace, among those used here.
Whitespace == {" ", "\n", "\t"}

IsSpace(c) == c \in Whitespace

\* The characters Python's \w matches, among ASCII, in code point order.
WordOrder ==
    << "0", "1", "2", "3", "4", "5", "6", "7", "8", "9",
       "A", "B", "C", "D", "E", "F", "G", "H", "I", "J", "K", "L", "M",
       "N", "O", "P", "Q", "R", "S", "T", "U", "V", "W", "X", "Y", "Z",
       "_",
       "a", "b", "c", "d", "e", "f", "g", "h", "i", "j", "k", "l", "m",
       "n", "o", "p", "q", "r", "s", "t", "u", "v", "w", "x", "y", "z" >>

IsWord(c) == \E k \in DOMAIN WordOrder : WordOrder[k] = c

\* The rank of a word character in code point order.
Rank(c) == CHOOSE k \in DOMAIN WordOrder : WordOrder[k] = c

\* The backtick, U+0060, which a TLA+ string literal cannot hold.
Backtick == "U+0060"

Fence == <<Backtick, Backtick, Backtick>>

TripleDouble == <<"\"", "\"", "\"">>

TripleSingle == <<"'", "'", "'">>

PythonTag == <<"p", "y", "t", "h", "o", "n">>

ImportKw == <<"i", "m", "p", "o", "r", "t">>

FromKw == <<"f", "r", "o", "m">>

(***************************************************************************)
(* Matching                                                                *)
(***************************************************************************)

\* The literal lit stands in s at position i.
HasAt(s, i, lit) ==
    /\ i + Len(lit) <= Len(s) + 1
    /\ \A k \in 1..Len(lit) : s[i + k - 1] = lit[k]

\* The first position at or after i where lit stands in s, 0 when there is none.
RECURSIVE Find(_, _, _)
Find(s, lit, i) ==
    IF i + Len(lit) > Len(s) + 1 THEN 0
    ELSE IF HasAt(s, i, lit) THEN i
    ELSE Find(s, lit, i + 1)

\* The position of the first newline at or after i, Len(s) + 1 when there is none.
RECURSIVE SkipToEol(_, _)
SkipToEol(s, i) ==
    IF i > Len(s) \/ s[i] = "\n" THEN i ELSE SkipToEol(s, i + 1)

\* The length of the run of whitespace that starts at i.
RECURSIVE WsRun(_, _)
WsRun(s, i) ==
    IF i > Len(s) \/ ~IsSpace(s[i]) THEN 0 ELSE 1 + WsRun(s, i + 1)

\* The length of the run of word characters that starts at i.
RECURSIVE WordRun(_, _)
WordRun(s, i) ==
    IF i > Len(s) \/ ~IsWord(s[i]) THEN 0 ELSE 1 + WordRun(s, i + 1)

\* The result of a search that found nothing.
NoMatch == [ok |-> FALSE, group |-> <<>>]

(***************************************************************************)
(* extract_code_from_response                                              *)
(***************************************************************************)

\* The closing fence without the \s* before it.
TrailNoSpace(s, e) == HasAt(s, e, Fence)

\* \s* then the fence matches at e: some number of whitespace characters, then the fence.
TrailOK(s, e) ==
    \E t \in 0..WsRun(s, e) : HasAt(s, e + t, Fence)

\* (.*?)\s* then the fence, from g: the lazy group grows one character at a time (DOTALL)
\* until the rest matches; the end of the group plus one, 0 when nothing matches.
RECURSIVE FirstE(_, _)
FirstE(s, g) ==
    IF g > Len(s) + 1 THEN 0
    ELSE IF TrailOK(s, g) THEN g
    ELSE FirstE(s, g + 1)

\* \s*(.*?)\s* then the fence, from p: the greedy \s* takes w characters and gives them
\* back one at a time while the rest fails.
RECURSIVE TryW(_, _, _)
TryW(s, p, w) ==
    LET e == FirstE(s, p + w)
    IN  IF e # 0 THEN [ok |-> TRUE, group |-> SubSeq(s, p + w, e - 1)]
        ELSE IF w = 0 THEN NoMatch
        ELSE TryW(s, p, w - 1)

\* The fence pattern, fence (?:python)? \s* (.*?) \s* fence, anchored at i: the optional tag is tried
\* first, and dropped when the rest then fails.
MatchFenceAt(s, i) ==
    IF ~HasAt(s, i, Fence) THEN NoMatch
    ELSE LET a == i + Len(Fence)
             b == a + Len(PythonTag)
             tagged == IF HasAt(s, a, PythonTag) THEN TryW(s, b, WsRun(s, b))
                       ELSE NoMatch
         IN  IF tagged.ok THEN tagged ELSE TryW(s, a, WsRun(s, a))

\* re.findall(...)[0] of the fence pattern: the leftmost match at or after i.
RECURSIVE SearchFence(_, _)
SearchFence(s, i) ==
    IF i > Len(s) THEN NoMatch
    ELSE LET m == MatchFenceAt(s, i)
         IN  IF m.ok THEN m ELSE SearchFence(s, i + 1)

\* re.findall(r'"""(.*?)"""', ..., re.DOTALL)[0]: the leftmost pair of triple quotes.
RECURSIVE SearchTriple(_, _)
SearchTriple(s, i) ==
    IF i > Len(s) THEN NoMatch
    ELSE IF HasAt(s, i, TripleDouble) /\ Find(s, TripleDouble, i + Len(TripleDouble)) # 0
         THEN [ok |-> TRUE,
               group |-> SubSeq(s, i + Len(TripleDouble),
                                Find(s, TripleDouble, i + Len(TripleDouble)) - 1)]
         ELSE SearchTriple(s, i + 1)

extract_code_from_response(response_text) ==
    LET fenced == SearchFence(response_text, 1)
        quoted == SearchTriple(response_text, 1)
    IN  IF fenced.ok THEN fenced.group
        ELSE IF quoted.ok THEN quoted.group
        ELSE response_text

(***************************************************************************)
(* clean_code                                                              *)
(***************************************************************************)

\* re.sub(r'#.*', '', code): from each '#' to the end of its line.
RECURSIVE SubComments(_, _)
SubComments(s, i) ==
    IF i > Len(s) THEN <<>>
    ELSE IF s[i] = "#" THEN SubComments(s, SkipToEol(s, i))
    ELSE <<s[i]>> \o SubComments(s, i + 1)

\* re.sub(d .*? d, '', code, flags=re.DOTALL) for a triple quote d: matches
\* are taken left to right and do not overlap.
RECURSIVE SubSpans(_, _, _)
SubSpans(s, d, i) ==
    IF i > Len(s) THEN <<>>
    ELSE IF HasAt(s, i, d) /\ Find(s, d, i + Len(d)) # 0
         THEN SubSpans(s, d, Find(s, d, i + Len(d)) + Len(d))
         ELSE <<s[i]>> \o SubSpans(s, d, i + 1)

\* code.split("\n") from position i.
RECURSIVE SplitLines(_, _)
SplitLines(s, i) ==
    LET e == SkipToEol(s, i)
    IN  IF e > Len(s) THEN <<SubSeq(s, i, Len(s))>>
        ELSE <<SubSeq(s, i, e - 1)>> \o SplitLines(s, e + 1)

\* line.strip() is not empty.
NotBlank(line) == \E k \in DOMAIN line : ~IsSpace(line[k])

\* [line for line in lines if line.strip()]
RECURSIVE KeepNotBlank(_)
KeepNotBlank(lines) ==
    IF lines = <<>> THEN <<>>
    ELSE IF NotBlank(Head(lines)) THEN <<Head(lines)>> \o KeepNotBlank(Tail(lines))
    ELSE KeepNotBlank(Tail(lines))

\* "\n".join(lines)
RECURSIVE JoinLines(_)
JoinLines(lines) ==
    IF lines = <<>> THEN <<>>
    ELSE IF Len(lines) = 1 THEN Head(lines)
    ELSE Head(lines) \o <<"\n">> \o JoinLines(Tail(lines))

clean_code(code) ==
    LET c1 == SubComments(code, 1)
        c2 == SubSpans(c1, TripleDouble, 1)
        c3 == SubSpans(c2, TripleSingle, 1)
    IN  JoinLines(KeepNotBlank(SplitLines(c3, 1)))

(***************************************************************************)
(* extract_modules_from_code                                               *)
(***************************************************************************)

\* ^ under re.MULTILINE: the start of the string or just after a newline.
AtLineStart(s, i) == i = 1 \/ s[i - 1] = "\n"

\* The length of the keyword (?:import|from) matches at i, 0 when neither does.
KeywordLen(s, i) ==
    IF HasAt(s, i, ImportKw) THEN Len(ImportKw)
    ELSE IF HasAt(s, i, FromKw) THEN Len(FromKw)
    ELSE 0

\* re.findall(r'^(?:import|from)\s+(\w+)', code, re.MULTILINE) from position i:
\* the names, in order of appearance; the search resumes where a match ended.
RECURSIVE FindImports(_, _)
FindImports(s, i) ==
    IF i > Len(s) THEN <<>>
    ELSE LET k == KeywordLen(s, i)
             w == WsRun(s, i + k)
             n == WordRun(s, i + k + w)
         IN  IF AtLineStart(s, i) /\ k > 0 /\ w > 0 /\ n > 0
             THEN <<SubSeq(s, i + k + w, i + k + w + n - 1)>>
                      \o FindImports(s, i + k + w + n)
             ELSE FindImports(s, i + 1)

\* a < b for two strs of word characters, as Python compares strs.
RECURSIVE StrLess(_, _)
StrLess(a, b) ==
    IF b = <<>> THEN FALSE
    ELSE IF a = <<>> THEN TRUE
    ELSE IF Head(a) = Head(b) THEN StrLess(Tail(a), Tail(b))
    ELSE Rank(Head(a)) < Rank(Head(b))

\* set(names)
ToSet(names) == {names[k] : k \in DOMAIN names}

\* sorted(S) of a set of strs.
RECURSIVE Sorted(_)
Sorted(S) ==
    IF S = {} THEN <<>>
    ELSE LET m == CHOOSE a \in S : \A b \in S \ {a} : StrLess(a, b)
         IN  <<m>> \o Sorted(S \ {m})

\* The names as found, neither made a set nor sorted.
ModulesAsFound(code) == FindImports(code, 1)

extract_modules_from_code(code) == Sorted(ToSet(FindImports(code, 1)))

(***************************************************************************)
(* Prompts and provider calls                                              *)
(***************************************************************************)

\* What json.dumps writes for one character of a str (ensure_ascii, among those used here).
JsonEscape(c) ==
    CASE c = "\"" -> <<"\\", "\"">>
      [] c = "\\" -> <<"\\", "\\">>
      [] c = "\n" -> <<"\\", "n">>
      [] c = "\t" -> <<"\\", "t">>
      [] OTHER -> <<c>>

RECURSIVE JsonString(_)
JsonString(s) ==
    IF s = <<>> THEN <<>> ELSE JsonEscape(Head(s)) \o JsonString(Tail(s))

create_json_prompt(prompt) ==
    <<"{\n  \"request\": \"generate_python_code\",\n  \"prompt\": \"">>
        \o JsonString(prompt)
        \o <<"\",\n  \"requirements\": {\n    \"language\": \"python\",\n    \"code_style\": \"minimal\",\n    \"include_comments\": false,\n    \"include_docs\": false,\n    \"include_examples\": false\n  }\n}">>

\* The f-string generate_code sends to the model.
GeneratePrompt(prompt) ==
    <<"As an expert Python developer, analyze this JSON request and generate clean, minimal Python code: \n            ">>
        \o prompt
        \o <<"\n            \n            Requirements:\n            1. Essential code only (no comments/docs)\n            2. Concise and functional\n            3. Efficient, modern Python\n            4. Wrap response inside ">>
        \o Fence \o PythonTag

\* The default of explain_code_hinglish's user_level.
DefaultLevel == <<"beginner">>

\* The f-string explain_code_hinglish sends to the model.
ExplainPrompt(code, user_level) ==
    <<"\n        Explain this Python code in Hinglish (Hindi + English) for a ">>
        \o user_level
        \o <<" level programmer:\n        ">>
        \o code
        \o <<"\n        \n        Guidelines:\n        - Easy to understand with simple analogies\n        - Use mix of Hindi and English words\n        - Explain main sections\n        - Conversational and friendly\n        - Length depend upon code\n        ">>

ModelName == "gemini-2.5-flash"

NotConfiguredText == <<"\\u26a0\\ufe0f API not configured. Please check your API key.">>

GenerateErrorPrefix == <<"\\u26a0\\ufe0f Error generating code:", " ">>

ExplainErrorPrefix == <<"\\u26a0\\ufe0f Error generating explanation:", " ">>

\* What the environment does to one completion call:
\*   secrets_error    st.secrets.get raises (no secrets store), outside any try
\*   configure_error  genai.configure or genai.GenerativeModel raises
\*   call_error       model.generate_content or response.text raises, str(e) = text
\*   reply            response.text = text
\* The record [kind, text] is one such outcome.
configure_gemini(outcome) ==
    [raised |-> outcome.kind = "secrets_error",
     model  |-> IF outcome.kind \in {"call_error", "reply"} THEN ModelName ELSE ""]

\* A completion whose except branch returns no text.
CompletionSwallowsError(outcome, prompt, error_prefix) ==
    LET cfg == configure_gemini(outcome)
    IN  IF cfg.raised THEN [raised |-> TRUE, text |-> <<>>, calls |-> <<>>]
        ELSE IF cfg.model = "" THEN
            [raised |-> FALSE, text |-> NotConfiguredText, calls |-> <<>>]
        ELSE
            [raised |-> FALSE,
             text   |-> IF outcome.kind = "reply" THEN outcome.text ELSE <<>>,
             calls  |-> <<[provider |-> cfg.model, prompt |-> prompt]>>]

\* One completion: whether an exception left the function, the text it returned
\* otherwise, and the calls it made to a model.
Completion(outcome, prompt, error_prefix) ==
    LET cfg == configure_gemini(outcome)
    IN  IF cfg.raised THEN [raised |-> TRUE, text |-> <<>>, calls |-> <<>>]
        ELSE IF cfg.model = "" THEN
            [raised |-> FALSE, text |-> NotConfiguredText, calls |-> <<>>]
        ELSE
            [raised |-> FALSE,
             text   |-> IF outcome.kind = "reply" THEN outcome.text
                        ELSE error_prefix \o outcome.text,
             calls  |-> <<[provider |-> cfg.model, prompt |-> prompt]>>]

generate_code(prompt, outcome) ==
    Completion(outcome, GeneratePrompt(prompt), GenerateErrorPrefix)

explain_code_hinglish(code, outcome) ==
    Completion(outcome, ExplainPrompt(code, DefaultLevel), ExplainErrorPrefix)

(***************************************************************************)
(* The script's runs                                                       *)
(***************************************************************************)

\* The session state a run leaves as it found it.
Kept ==
    [json_prompt |-> json_prompt, generated_output |-> generated_output,
     modules |-> modules, explanation |-> explanation, raw_output |-> raw_output,
     explained_code |-> explained_code]

\* Lines 131-133: the generated output and the modules of a raw reply.
Processed(raw) ==
    LET extracted_code == extract_code_from_response(raw)
        cleaned == clean_code(extracted_code)
    IN  [generated_output |-> cleaned,
         modules |-> extract_modules_from_code(cleaned)]

\* A generate run without line 134: the explanation stays.
GenerateRunKeepsExplanation(prompt, outcome) ==
    LET jp == create_json_prompt(prompt)
        r  == generate_code(jp, outcome)
        p  == Processed(r.text)
    IN  IF prompt = <<>> THEN
            Kept @@ [last |-> "generate_skipped", calls |-> <<>>, provider_error |-> ""]
        ELSE IF r.raised THEN
            [Kept EXCEPT !.json_prompt = jp]
                @@ [last |-> "generate_raised", calls |-> r.calls,
                    provider_error |-> outcome.kind]
        ELSE
            [json_prompt |-> jp, generated_output |-> p.generated_output,
             modules |-> p.modules, explanation |-> explanation, raw_output |-> r.text,
             explained_code |-> explained_code, last |-> "generate", calls |-> r.calls,
             provider_error |-> IF outcome.kind = "reply" THEN "" ELSE outcome.kind]

\* A run with the generate button pressed: what it stores, what it did ("last"),
\* the calls it made and how the completion failed.
GenerateRun(prompt, outcome) ==
    LET jp == create_json_prompt(prompt)
        r  == generate_code(jp, outcome)
        p  == Processed(r.text)
    IN  IF prompt = <<>> THEN
            Kept @@ [last |-> "generate_skipped", calls |-> <<>>, provider_error |-> ""]
        ELSE IF r.raised THEN
            [Kept EXCEPT !.json_prompt = jp]
                @@ [last |-> "generate_raised", calls |-> r.calls,
                    provider_error |-> outcome.kind]
        ELSE
            [json_prompt |-> jp, generated_output |-> p.generated_output,
             modules |-> p.modules, explanation |-> <<>>, raw_output |-> r.text,
             explained_code |-> <<>>, last |-> "generate", calls |-> r.calls,
             provider_error |-> IF outcome.kind = "reply" THEN "" ELSE outcome.kind]

\* An explain run that stores the text under generated_output as well.
ExplainRunOverwritesOutput(outcome) ==
    LET r == explain_code_hinglish(generated_output, outcome)
    IN  IF r.raised THEN
            Kept @@ [last |-> "explain_raised", calls |-> r.calls,
                     provider_error |-> outcome.kind]
        ELSE
            [Kept EXCEPT !.explanation = r.text, !.raw_output = r.text,
                         !.generated_output = r.text,
                         !.explained_code = generated_output]
                @@ [last |-> "explain", calls |-> r.calls,
                    provider_error |-> IF outcome.kind = "reply" THEN "" ELSE outcome.kind]

\* A run with the explain button pressed.
ExplainRun(outcome) ==
    LET r == explain_code_hinglish(generated_output, outcome)
    IN  IF r.raised THEN
            Kept @@ [last |-> "explain_raised", calls |-> r.calls,
                     provider_error |-> outcome.kind]
        ELSE
            [Kept EXCEPT !.explanation = r.text, !.raw_output = r.text,
                         !.explained_code = generated_output]
                @@ [last |-> "explain", calls |-> r.calls,
                    provider_error |-> IF outcome.kind = "reply" THEN "" ELSE outcome.kind]

\* Lines 139-156: the run reaches the results section and finds an output to show,
\* so the code and the explain button are on the page the run leaves.
ShowsResults(run) ==
    /\ run.last # "generate_raised"
    /\ run.generated_output # <<>>

Store(run) ==
    /\ json_prompt' = run.json_prompt
    /\ generated_output' = run.generated_output
    /\ modules' = run.modules
    /\ explanation' = run.explanation
    /\ raw_output' = run.raw_output
    /\ explained_code' = run.explained_code
    /\ last' = run.last
    /\ calls' = run.calls
    /\ provider_error' = run.provider_error
    /\ shown' = ShowsResults(run)

GenerateButton(prompt, outcome) ==
    /\ user_prompt' = prompt
    /\ Store(GenerateRun(prompt, outcome))
    /\ UNCHANGED helper

\* The explain button exists only on a page that shows results.
ExplainButton(outcome) ==
    /\ shown
    /\ Store(ExplainRun(outcome))
    /\ UNCHANGED <<user_prompt, x, y, z, op>>

(***************************************************************************)
(* Inputs                                                                  *)
(***************************************************************************)

\* The strs over alphabet of length at most n.
RECURSIVE Strs(_, _)
Strs(alphabet, n) ==
    IF n = 0 THEN {<<>>}
    ELSE LET S == Strs(alphabet, n - 1)
         IN  S \cup {Append(s, c) : s \in S, c \in alphabet}

\* The concatenations of at most n of the pieces.
RECURSIVE Concats(_, _)
Concats(pieces, n) ==
    IF n = 0 THEN {<<>>}
    ELSE LET S == Concats(pieces, n - 1)
         IN  S \cup {s \o q : s \in S, q \in pieces}

MaxPromptLen == 1

MaxReplyLen == 1

PromptAlphabet == {" ", "\n", "a"}

UserPrompts == Strs(PromptAlphabet, MaxPromptLen)

ReplyAlphabet == {"a", "#"}

Nl == <<"\n">>

Sp == <<" ">>

\* A fenced block tagged python, with an import and a trailing comment.
SampleFenced ==
    <<"H", "e", "r", "e", ":">> \o Nl \o Fence \o PythonTag \o Nl
        \o ImportKw \o Sp \o <<"o", "s">> \o Nl
        \o <<"a", " ", "=", " ", "1", " ", " ", "#", " ", "c">> \o Nl \o Fence

\* An empty fenced block.
SampleEmptyFence == Fence \o Fence

\* A docstring that holds an import line, then code.
SampleDocstring ==
    TripleSingle \o Nl \o ImportKw \o Sp \o <<"o", "s">> \o Nl \o TripleSingle
        \o Nl \o <<"a">>

\* Imports out of order and repeated.
SampleImports ==
    FromKw \o Sp \o <<"b">> \o Sp \o ImportKw \o Sp \o <<"c">> \o Nl
        \o ImportKw \o Sp \o <<"a">> \o Nl \o ImportKw \o Sp \o <<"b">>

SampleReplies == {SampleFenced, SampleEmptyFence, SampleDocstring, SampleImports}

Replies == Strs(ReplyAlphabet, MaxReplyLen) \cup SampleReplies

ExplanationReplies == Strs(ReplyAlphabet, MaxReplyLen)

\* str(e) of the exception a call raises.
ErrorMessages == {<<"e">>, <<"#", "e">>}

Outcomes(replies) ==
    {[kind |-> k, text |-> <<>>] : k \in {"secrets_error", "configure_error"}}
        \cup {[kind |-> "call_error", text |-> m] : m \in ErrorMessages}
        \cup {[kind |-> "reply", text |-> t] : t \in replies}

(***************************************************************************)
(* The session                                                             *)
(***************************************************************************)

\* Lines 104-106: every key defaults to "".
SessionInit ==
    /\ user_prompt = <<>>
    /\ json_prompt = <<>>
    /\ generated_output = <<>>
    /\ modules = <<>>
    /\ explanation = <<>>
    /\ last = "start"
    /\ shown = FALSE
    /\ raw_output = <<>>
    /\ calls = <<>>
    /\ provider_error = ""
    /\ explained_code = <<>>

Init ==
    /\ SessionInit
    /\ x = <<>>
    /\ y = <<>>
    /\ z = <<>>
    /\ op = "idle"

Generate ==
    \E prompt \in UserPrompts, outcome \in Outcomes(Replies) :
        GenerateButton(prompt, outcome)

Explain ==
    \E outcome \in Outcomes(ExplanationReplies) : ExplainButton(outcome)

Next == Generate \/ Explain

Spec == Init /\ [][Next]_vars

(***************************************************************************)
(* The helpers on their own                                                *)
(***************************************************************************)

MaxExtractPieces == 5

MaxCleanLen == 4

MaxQuoteLen == 12

MaxModulePieces == 5

ExtractPieces == {Fence, PythonTag, Sp, Nl, <<"a">>, TripleDouble, <<Backtick>>}

ExtractInputs == Concats(ExtractPieces, MaxExtractPieces)

CleanAlphabet == {"\"", "'", "#", "\n", " ", "a"}

QuoteAlphabet == {"\"", "'"}

CleanInputs == Strs(CleanAlphabet, MaxCleanLen) \cup Strs(QuoteAlphabet, MaxQuoteLen)

ModulePieces == {ImportKw \o Sp, FromKw \o Sp, Nl, <<"a">>, <<"B">>}

ModuleInputs == Concats(ModulePieces, MaxModulePieces)

HelperInit(inputs) ==
    /\ SessionInit
    /\ x \in inputs
    /\ y = <<>>
    /\ z = <<>>
    /\ op = "input"

ApplyExtract ==
    /\ op = "input"
    /\ y' = extract_code_from_response(x)
    /\ op' = "extracted"
    /\ UNCHANGED <<session, x, z>>

ApplyClean ==
    /\ op = "input"
    /\ y' = clean_code(x)
    /\ op' = "cleaned"
    /\ UNCHANGED <<session, x, z>>

ApplyCleanAgain ==
    /\ op = "cleaned"
    /\ z' = clean_code(y)
    /\ op' = "cleaned_twice"
    /\ UNCHANGED <<session, x, y>>

ApplyModules ==
    /\ op = "input"
    /\ y' = extract_modules_from_code(x)
    /\ op' = "listed"
    /\ UNCHANGED <<session, x, z>>

\* The generate button, pressed with a task and answered by the model with x.
GenerateInput == GenerateButton(<<"a">>, [kind |-> "reply", text |-> x])

\* The explain button, answered by the model with a one-letter explanation.
ExplainInput == ExplainButton([kind |-> "reply", text |-> <<"a">>])

InitExtract == HelperInit(ExtractInputs)

NextExtract == ApplyExtract

SpecExtract == InitExtract /\ [][NextExtract]_vars

InitClean == HelperInit(CleanInputs)

NextClean == ApplyClean \/ ApplyCleanAgain

SpecClean == InitClean /\ [][NextClean]_vars

InitModules == HelperInit(ModuleInputs)

NextModules == ApplyModules \/ GenerateInput \/ ExplainInput

SpecModules == InitModules /\ [][NextModules]_vars

(***************************************************************************)
(* Properties                                                              *)
(***************************************************************************)

\* The last run made a completion call that returned.
Completed == last \in {"generate", "explain"}

\* The last run was a press of the generate button.
GeneratePressed == last \in {"generate", "generate_skipped", "generate_raised"}

\* The prompt the last run's completion had to send.
PromptOfLastRun ==
    IF GeneratePressed THEN GeneratePrompt(json_prompt)
    ELSE ExplainPrompt(generated_output, DefaultLevel)

ErrorPrefixOfLastRun ==
    IF GeneratePressed THEN GenerateErrorPrefix ELSE ExplainErrorPrefix

IsBlank(s) == \A k \in DOMAIN s : IsSpace(s[k])

\* C1, as the spec has it: whenever the primary provider fails during a
\* completion, a secondary provider is invoked with the same unmodified prompt.
SecondaryInvokedOnFailure ==
    provider_error # "" =>
        \E k \in DOMAIN calls :
            /\ calls[k].provider # ModelName
            /\ calls[k].prompt = PromptOfLastRun

\* C1, amended: there is one provider. A completion calls no model but
\* gemini-2.5-flash and calls it at most once; when configuring it fails the
\* not-configured text is returned and no call is made; when the call fails the
\* error text with the exception's message is returned; when the secrets lookup
\* raises, the run ends with no call made.
FailureTextAfterOneCall ==
    /\ Len(calls) <= 1
    /\ \A k \in DOMAIN calls :
           calls[k].provider = ModelName /\ calls[k].prompt = PromptOfLastRun
    /\ (Completed /\ provider_error = "configure_error") =>
           (raw_output = NotConfiguredText /\ calls = <<>>)
    /\ (Completed /\ provider_error = "call_error") =>
           (Len(calls) = 1
            /\ raw_output \in {ErrorPrefixOfLastRun \o m : m \in ErrorMessages})
    /\ provider_error = "secrets_error" =>
           (last \in {"generate_raised", "explain_raised"} /\ calls = <<>>)

\* C1's case: the one call of a generate run failed.
CallFailed ==
    last = "generate" /\ provider_error = "call_error" /\ Len(calls) = 1

\* C2: the text a completion call returns is never the empty string.
ReturnedTextNeverEmpty == Completed => raw_output # <<>>

\* C3: a stored non-empty explanation was produced from the code now stored as
\* the generated output, and a generation leaves no explanation behind.
ExplanationIsOfCurrentCode ==
    /\ explanation # <<>> => explained_code = generated_output
    /\ last = "generate" => explanation = <<>>

\* C3's case: an explanation of the current code is stored.
ExplanationStored ==
    last = "explain" /\ explanation # <<>> /\ generated_output # <<>>

\* C4: a generate action whose task description is empty or only whitespace
\* makes no provider call and leaves json_prompt, generated_output, modules and
\* explanation unchanged.
BlankPromptIsNoOp ==
    [][(GeneratePressed' /\ IsBlank(user_prompt')) =>
          (calls' = <<>>
           /\ UNCHANGED <<json_prompt, generated_output, modules, explanation>>)]_vars

\* C5: every generate action with a non-empty task description ends with a
\* generated output present and shown and the explain button available; when
\* the provider failed, that output is the diagnostic text.
GenerateEndsGenerated ==
    /\ last \in {"generate", "generate_raised"} =>
           (shown /\ generated_output # <<>>)
    /\ (last = "generate" /\ provider_error # "") => generated_output = raw_output

\* C6: clean_code(clean_code(x)) = clean_code(x).
CleanIdempotent == op = "cleaned_twice" => z = y

\* C7: the first fenced block of s, if any: a fence, and a later fence that
\* does not overlap it.
HasFencedBlock(s) ==
    LET i == Find(s, Fence, 1)
    IN  i # 0 /\ Find(s, Fence, i + Len(Fence)) # 0

\* What stands between the first fence, with its python tag if it has one,
\* and the next fence.
FirstBlockContent(s) ==
    LET a == Find(s, Fence, 1) + Len(Fence)
        b == IF HasAt(s, a, PythonTag) THEN a + Len(PythonTag) ELSE a
    IN  SubSeq(s, b, Find(s, Fence, b) - 1)

RECURSIVE TrimLeft(_)
TrimLeft(s) ==
    IF s # <<>> /\ IsSpace(Head(s)) THEN TrimLeft(Tail(s)) ELSE s

RECURSIVE TrimRight(_)
TrimRight(s) ==
    IF s # <<>> /\ IsSpace(s[Len(s)]) THEN TrimRight(SubSeq(s, 1, Len(s) - 1)) ELSE s

Trim(s) == TrimRight(TrimLeft(s))

NoExceptionEscapes == last \notin {"generate_raised", "explain_raised"}

\* Each entry is less than every later one: ascending and without duplicates.
StrictlySorted(names) ==
    \A i, j \in DOMAIN names : i < j => StrLess(names[i], names[j])

\* C9: the stored modules list, and the list extract_modules_from_code returns,
\* is in ascending order and holds no duplicates.
ModulesSortedUnique ==
    /\ StrictlySorted(modules)
    /\ op = "listed" => StrictlySorted(y)

\* C9's case: a generation stored two modules or more, and the list returned
\* for the same text is not the names in the order they were found.
ModulesReordered ==
    /\ op = "listed"
    /\ last \in {"generate", "explain"}
    /\ Len(modules) >= 2
    /\ y # FindImports(x, 1)

\* C10: an explain action leaves generated_output, modules and json_prompt as
\* they were, whether its call succeeds, fails or raises, and modules is always
\* extract_modules_from_code(generated_output).
ExplainChangesOnlyExplanation ==
    /\ [](modules = extract_modules_from_code(generated_output))
    /\ [][last' \in {"explain", "explain_raised"} =>
             UNCHANGED <<generated_output, modules, json_prompt>>]_vars

\* C10's case: an explanation was stored for code that imports modules.
ExplainedWithModules ==
    last = "explain" /\ explanation # <<>> /\ modules # <<>>

====
